---- MODULE Spec2Model ----
(***************************************************************************)
(* Ultrasound calibration wizard: the pointer-based module                 *)
(* (PointerBasedUSCalibration.py) and the imageless module                 *)
(* (ImagelessUSCalibration.py).                                            *)
(*                                                                         *)
(* The two modules are independent programs; each gets its own             *)
(* specification over its own variables:                                   *)
(*   SpecPointer    the point-list bookkeeping of the pointer-based logic  *)
(*   SpecErrors     ComputeErrors applied to drawn list/transform inputs   *)
(*   SpecImageless  the imageless logic with its recomputation             *)
(*   SpecSessions   resets, further points and repeated set-up on sessions *)
(*                  of either module that already hold points              *)
(***************************************************************************)
EXTENDS Integers, Sequences, FiniteSets, TLC

(***************************************************************************)
(* Bounds of the model                                                     *)
(***************************************************************************)
\* image points placed in one run of the pointer-based module
MaxPlaced == 3
\* calls of SetupCalibrationNode on the one session (observers registered)
MaxObservers == 2
\* length of the lists the ComputeErrors inputs are drawn from
MaxLen == 3
\* corner points selected on one side of the probe over a session
MaxCorners == 2
\* ModifiedEvents of the calibration node nested in one another that the
\* recomputation is followed through
MaxNesting == 2
\* corner points selected on one side of a drawn session
MaxSelected == 3

(***************************************************************************)
(* Values                                                                  *)
(***************************************************************************)
\* Python's None, where a node reference or a logic object is asked for
None == "None"
\* the one vtkMRMLFiducialRegistrationWizardNode of the session
FrwNode == "frwNode"
\* what slicer.modules.fiducialregistrationwizard.logic() can give
FrwLogic == "frwLogic"

\* positions: integer triples chosen so that every Euclidean distance the
\* model takes is an integer (3-4-5 and 5-12-13 triangles)
ImagePoints == { <<0, 0, 0>>, <<3, 4, 0>> }
ProbePoints == { <<0, 0, 0>>, <<3, 4, 0>> }

\* a vtkMRMLMarkupsFiducialNode: its markups in order, and the counter its
\* labels are generated from; isNone: the reference is None
NoList == [isNone |-> TRUE, name |-> "", markups |-> <<>>, lastId |-> 0]
NewList(listName) ==
  [isNone |-> FALSE, name |-> listName, markups |-> <<>>, lastId |-> 0]

VARIABLES
  \* ---- pointer-based module ----
  fromFiducialList,   \* frwNode.GetFromFiducialListNode(): "Image_Points"
  toFiducialList,     \* frwNode.GetToFiducialListNode(): "Probe_Points"
  outputTransform,    \* frwNode.GetOutputTransformNode()
  observers,          \* AddPointToCalibration observers on the from list
  pc,                 \* "idle", or "MarkupAddedEvent" while observers run
  pending,            \* observers still to run for the current event
  errorList,          \* what the last ComputeErrors call returned
  \* ---- imageless module ----
  markedPoints,       \* node reference MARKED_POINTS_ROLE
  unmarkedPoints,     \* node reference UNMARKED_POINTS_ROLE
  depthAttr,          \* attribute DEPTH_ROLE of the calibration node
  outputMessage,      \* attribute OUTPUT_MESSAGE_ROLE of the calibration node
  usImage,            \* node reference ULTRASOUND_IMAGE_ROLE
  imageToProbe,       \* node reference IMAGE_TO_PROBE_TRANSFORM_ROLE
  ilObservers,        \* SetupCalibrationNode calls (ComputeCalibration observers)
  \* ---- bookkeeping of the last operation (both modules) ----
  log,                \* warnings logged by the last operation
  exception,          \* exception the last operation raised, "" for none
  called,             \* the last operation: its name and arguments
  pre,                \* the state the last operation started from
  undone,             \* for an UndoPoints right after a placement: the lists before it
  unpaired            \* a placement since the last reset got no paired probe point

pbVars == <<fromFiducialList, toFiducialList, outputTransform, observers, pc,
            pending, errorList, undone, unpaired>>
ilVars == <<markedPoints, unmarkedPoints, depthAttr, outputMessage, usImage,
            imageToProbe, ilObservers>>
opVars == <<log, exception, called, pre>>
vars == <<pbVars, ilVars, opVars>>

(***************************************************************************)
(* vtkMRMLMarkupsFiducialNode, as the two modules use it                   *)
(***************************************************************************)
GetNumberOfFiducials(list) == Len(list.markups)

\* RemoveMarkup( n ): n is 0-based; a markup that does not exist is ignored
RemoveMarkup(list, n) ==
  IF n >= 0 /\ n < Len(list.markups)
  THEN [list EXCEPT !.markups =
          [i \in 1..(Len(list.markups) - 1) |->
             IF i <= n THEN list.markups[i] ELSE list.markups[i + 1]]]
  ELSE list

RemoveAllMarkups(list) == [list EXCEPT !.markups = <<>>]

\* frwLogic.AddFiducial( transformNode, list ): the collaborator appends one
\* fiducial at the stylus tip position p, under the list's next label
AddFiducial(list, p) ==
  [list EXCEPT !.markups = Append(@, [label |-> list.name \o "-" \o ToString(list.lastId + 1),
                                      pos |-> p]),
               !.lastId = @ + 1]

GetNthFiducialLabel(list, i) == list.markups[i + 1].label
\* GetNthFiducialPosition( i, pos ) fills the caller's array, which the callers
\* hand in as [ 0, 0, 0 ]; a fiducial that does not exist leaves it so
GetNthFiducialPosition(list, i) ==
  IF i >= 0 /\ i < Len(list.markups) THEN list.markups[i + 1].pos ELSE <<0, 0, 0>>

(***************************************************************************)
(* Bookkeeping shared by the operations                                    *)
(***************************************************************************)
\* name, session argument and index argument of an operation; for a placement,
\* paired: an observer appended the probe point, withLogic: the observers that
\* ran so far with the fiducial registration logic available
Call(opName, node, n) ==
  [name |-> opName, node |-> node, n |-> n, paired |-> FALSE, withLogic |-> 0]
NoUndone == [valid |-> FALSE, paired |-> FALSE, from |-> <<>>, to |-> <<>>]
Lists == [from |-> fromFiducialList.markups, to |-> toFiducialList.markups]

\* 4x4 matrices, row by row
Identity == << <<1, 0, 0, 0>>, <<0, 1, 0, 0>>, <<0, 0, 1, 0>>, <<0, 0, 0, 1>> >>
NoTransform == [isNone |-> TRUE, matrix |-> Identity]

(***************************************************************************)
(* PointerBasedUSCalibrationLogic                                          *)
(***************************************************************************)
\* SetupCalibrationNode( frwNode ): creates the lists the node lacks and
\* registers one more AddPointToCalibration observer on the from list
PB_SetupCalibrationNode(frwNode) ==
  /\ pc = "idle"
  /\ observers < MaxObservers
  /\ IF frwNode = None
     THEN UNCHANGED <<fromFiducialList, toFiducialList, observers>>
     ELSE /\ fromFiducialList' = IF fromFiducialList.isNone
                                 THEN NewList("Image_Points") ELSE fromFiducialList
          /\ toFiducialList' = IF toFiducialList.isNone
                               THEN NewList("Probe_Points") ELSE toFiducialList
          /\ observers' = observers + 1
  /\ called' = Call("SetupCalibrationNode", frwNode, 0)
  /\ pre' = Lists
  /\ log' = <<>>
  /\ exception' = ""
  /\ undone' = NoUndone
  /\ UNCHANGED <<outputTransform, pc, pending, errorList, unpaired>>
  /\ UNCHANGED ilVars

\* StartMarkPoint( frwNode ) makes the from list the active place node; the
\* operator's click then adds one markup to it, which raises MarkupAddedEvent
\* for every observer registered on the list
PlaceImagePoint(frwNode, p) ==
  /\ pc = "idle"
  /\ frwNode # None
  /\ ~fromFiducialList.isNone
  /\ fromFiducialList.lastId < MaxPlaced
  /\ fromFiducialList' = AddFiducial(fromFiducialList, p)
  /\ pc' = IF observers > 0 THEN "MarkupAddedEvent" ELSE "idle"
  /\ pending' = observers
  /\ unpaired' = (unpaired \/ observers = 0)
  /\ called' = Call("PlaceImagePoint", frwNode, 0)
  /\ pre' = Lists
  /\ log' = <<>>
  /\ exception' = ""
  /\ undone' = NoUndone
  /\ UNCHANGED <<toFiducialList, outputTransform, observers, errorList>>
  /\ UNCHANGED ilVars

\* the length test of AddPointToCalibration: the list just added to must be
\* exactly one longer than the other
Unsynchronized_MoreThanOne(addedFiducialList, fiducialListToAddPoint) ==
  GetNumberOfFiducials(addedFiducialList)
    - GetNumberOfFiducials(fiducialListToAddPoint) > 1

Unsynchronized_Less(addedFiducialList, fiducialListToAddPoint) ==
  GetNumberOfFiducials(addedFiducialList)
    - GetNumberOfFiducials(fiducialListToAddPoint) < 1

Unsynchronized(addedFiducialList, fiducialListToAddPoint) ==
  GetNumberOfFiducials(addedFiducialList)
    - GetNumberOfFiducials(fiducialListToAddPoint) # 1

\* AddPointToCalibration( frwNode, addedFiducialList, eventid ), called with the
\* from list as addedFiducialList (the only list observed); frwLogic is what
\* slicer.modules.fiducialregistrationwizard.logic() gives this call, p the
\* stylus tip position AddFiducial reads
AddPointToCalibration(frwNode, frwLogic, p) ==
  LET fiducialListToAddPoint == toFiducialList IN
  IF frwNode = None \/ fiducialListToAddPoint.isNone \/ frwLogic = None
  THEN UNCHANGED <<toFiducialList, log>>
  ELSE IF Unsynchronized(fromFiducialList, fiducialListToAddPoint)
  THEN /\ log' = Append(log, "Image and probe points lists have become unsynchronized.")
       /\ UNCHANGED toFiducialList
  ELSE /\ toFiducialList' = AddFiducial(fiducialListToAddPoint, p)
       /\ UNCHANGED log

\* one observer of the pending MarkupAddedEvent runs
MarkupAddedObserver(frwLogic, p) ==
  /\ pc = "MarkupAddedEvent"
  /\ pending > 0
  /\ AddPointToCalibration(FrwNode, frwLogic, p)
  /\ pending' = pending - 1
  /\ pc' = IF pending = 1 THEN "idle" ELSE pc
  /\ called' = [called EXCEPT
                  !.paired = @ \/ toFiducialList' # toFiducialList,
                  !.withLogic = @ + (IF frwLogic = None THEN 0 ELSE 1)]
  /\ unpaired' = (unpaired \/ (pending = 1 /\ ~called'.paired))
  /\ UNCHANGED <<fromFiducialList, outputTransform, observers, errorList, undone>>
  /\ UNCHANGED <<exception, pre>>
  /\ UNCHANGED ilVars

\* the most recently added point of one list, if it has any
UndoLast_First(list) ==
  IF GetNumberOfFiducials(list) > 0 THEN RemoveMarkup(list, 0) ELSE list

UndoLast_OffByOne(list) ==
  IF GetNumberOfFiducials(list) > 1
  THEN RemoveMarkup(list, GetNumberOfFiducials(list) - 1)
  ELSE list

UndoLast(list) ==
  IF GetNumberOfFiducials(list) > 0
  THEN RemoveMarkup(list, GetNumberOfFiducials(list) - 1)
  ELSE list

UndoPoints(frwNode) ==
  /\ pc = "idle"
  /\ IF frwNode = None \/ fromFiducialList.isNone \/ toFiducialList.isNone
     THEN UNCHANGED <<fromFiducialList, toFiducialList>>
     ELSE /\ fromFiducialList' = UndoLast(fromFiducialList)
          /\ toFiducialList' = UndoLast(toFiducialList)
  /\ undone' = IF called.name = "PlaceImagePoint" /\ frwNode # None
               THEN [valid |-> TRUE, paired |-> called.paired,
                     from |-> pre.from, to |-> pre.to]
               ELSE NoUndone
  /\ called' = Call("UndoPoints", frwNode, 0)
  /\ pre' = Lists
  /\ log' = <<>>
  /\ exception' = ""
  /\ UNCHANGED <<outputTransform, observers, pc, pending, errorList, unpaired>>
  /\ UNCHANGED ilVars

ResetPoints(frwNode) ==
  /\ pc = "idle"
  /\ IF frwNode = None \/ fromFiducialList.isNone \/ toFiducialList.isNone
     THEN UNCHANGED <<fromFiducialList, toFiducialList, unpaired>>
     ELSE /\ fromFiducialList' = RemoveAllMarkups(fromFiducialList)
          /\ toFiducialList' = RemoveAllMarkups(toFiducialList)
          /\ unpaired' = FALSE
  /\ called' = Call("ResetPoints", frwNode, 0)
  /\ pre' = Lists
  /\ log' = <<>>
  /\ exception' = ""
  /\ undone' = NoUndone
  /\ UNCHANGED <<outputTransform, observers, pc, pending, errorList>>
  /\ UNCHANGED ilVars

\* the n-th point of one list, if the list is that long
DeleteNth_Clamped(list, n) ==
  IF GetNumberOfFiducials(list) > n
  THEN RemoveMarkup(list, n)
  ELSE RemoveMarkup(list, GetNumberOfFiducials(list) - 1)

DeleteNth_OneBased(list, n) ==
  IF GetNumberOfFiducials(list) > n THEN RemoveMarkup(list, n + 1) ELSE list

DeleteNth(list, n) ==
  IF GetNumberOfFiducials(list) > n THEN RemoveMarkup(list, n) ELSE list

DeleteNthPoint(frwNode, n) ==
  /\ pc = "idle"
  /\ IF frwNode = None \/ fromFiducialList.isNone \/ toFiducialList.isNone
     THEN UNCHANGED <<fromFiducialList, toFiducialList>>
     ELSE /\ fromFiducialList' = DeleteNth(fromFiducialList, n)
          /\ toFiducialList' = DeleteNth(toFiducialList, n)
  /\ called' = Call("DeleteNthPoint", frwNode, n)
  /\ pre' = Lists
  /\ log' = <<>>
  /\ exception' = ""
  /\ undone' = NoUndone
  /\ UNCHANGED <<outputTransform, observers, pc, pending, errorList, unpaired>>
  /\ UNCHANGED ilVars

\* the output transform node: any of these matrices (the registration that
\* fills it is the fiducial registration wizard's)
Scale2 == << <<2, 0, 0, 0>>, <<0, 2, 0, 0>>, <<0, 0, 2, 0>>, <<0, 0, 0, 1>> >>
Translate12 == << <<1, 0, 0, 0>>, <<0, 1, 0, 0>>, <<0, 0, 1, 12>>, <<0, 0, 0, 1>> >>
Matrices == {Identity, Scale2, Translate12}
TransformNodes == {NoTransform} \cup {[isNone |-> FALSE, matrix |-> m] : m \in Matrices}

\* SetImageToProbeTransform( imageToProbeNode, frwNode )
PB_SetImageToProbeTransform(imageToProbeNode, frwNode) ==
  /\ pc = "idle"
  /\ IF frwNode = None \/ imageToProbeNode.isNone
     THEN UNCHANGED outputTransform
     ELSE outputTransform' = imageToProbeNode
  /\ called' = Call("SetImageToProbeTransform", frwNode, 0)
  /\ pre' = Lists
  /\ log' = <<>>
  /\ exception' = ""
  /\ UNCHANGED <<fromFiducialList, toFiducialList, observers, pc, pending,
                 errorList, undone, unpaired>>
  /\ UNCHANGED ilVars

\* vtkMatrix4x4.MultiplyPoint( in, out ): the full 4x4 product
MultiplyPoint(matrix, point) ==
  [r \in 1..4 |-> matrix[r][1] * point[1] + matrix[r][2] * point[2]
                    + matrix[r][3] * point[3] + matrix[r][4] * point[4]]

\* vtkMath.Distance2BetweenPoints
Distance2BetweenPoints(a, b) ==
  (a[1] - b[1]) * (a[1] - b[1]) + (a[2] - b[2]) * (a[2] - b[2])
    + (a[3] - b[3]) * (a[3] - b[3])

\* math.sqrt, on the squares the model's positions give
Sqrt(x) == CHOOSE r \in 0..x : r * r = x

RESULTS_IMAGE_POINTS_INDEX == 0
RESULTS_PROBE_POINTS_INDEX == 1
RESULTS_ERROR_INDEX == 2

\* the element ComputeErrors builds for index i (0-based)
ErrorElement_Untransformed(i) ==
  LET currFromPoint == GetNthFiducialPosition(fromFiducialList, i)
      currToPoint == GetNthFiducialPosition(toFiducialList, i)
  IN [k \in 1..3 |->
        IF k = RESULTS_IMAGE_POINTS_INDEX + 1 THEN GetNthFiducialLabel(fromFiducialList, i)
        ELSE IF k = RESULTS_PROBE_POINTS_INDEX + 1 THEN GetNthFiducialLabel(toFiducialList, i)
        ELSE Sqrt(Distance2BetweenPoints(currToPoint, currFromPoint))]

ErrorElement(i) ==
  LET hasFrom == GetNumberOfFiducials(fromFiducialList) > i
      hasTo == GetNumberOfFiducials(toFiducialList) > i
      currFromPoint == Append(GetNthFiducialPosition(fromFiducialList, i), 1)
      currToPoint == GetNthFiducialPosition(toFiducialList, i)
      currTransformedFromPoint ==
        SubSeq(MultiplyPoint(outputTransform.matrix, currFromPoint), 1, 3)
  IN [k \in 1..3 |->
        IF k = RESULTS_IMAGE_POINTS_INDEX + 1
        THEN (IF hasFrom THEN GetNthFiducialLabel(fromFiducialList, i) ELSE "")
        ELSE IF k = RESULTS_PROBE_POINTS_INDEX + 1
        THEN (IF hasTo THEN GetNthFiducialLabel(toFiducialList, i) ELSE "")
        ELSE (IF hasFrom /\ hasTo
              THEN Sqrt(Distance2BetweenPoints(currToPoint, currTransformedFromPoint))
              ELSE "")]

Max(a, b) == IF a >= b THEN a ELSE b

\* the test under which ComputeErrors gives up: lists of different length, or
\* fewer than 3 points
NotComputable_And(fromList, toList) ==
  /\ GetNumberOfFiducials(fromList) # GetNumberOfFiducials(toList)
  /\ Max(GetNumberOfFiducials(fromList), GetNumberOfFiducials(toList)) < 3

NotComputable(fromList, toList) ==
  \/ GetNumberOfFiducials(fromList) # GetNumberOfFiducials(toList)
  \/ Max(GetNumberOfFiducials(fromList), GetNumberOfFiducials(toList)) < 3

ComputeErrors(frwNode) ==
  IF frwNode = None
  THEN <<>>
  ELSE IF fromFiducialList.isNone \/ toFiducialList.isNone \/ outputTransform.isNone
  THEN <<>>
  ELSE IF NotComputable(fromFiducialList, toFiducialList)
  THEN <<>>
  ELSE LET maxNumFiducials == Max(GetNumberOfFiducials(fromFiducialList),
                                  GetNumberOfFiducials(toFiducialList))
       IN [k \in 1..maxNumFiducials |-> ErrorElement(k - 1)]

\* onCalibrationOutputChanged( frwNode, eventid ): the widget asks for the
\* errors and shows them
ComputeErrorsCall(frwNode) ==
  /\ pc = "idle"
  /\ errorList' = ComputeErrors(frwNode)
  /\ called' = Call("ComputeErrors", frwNode, 0)
  /\ pre' = Lists
  /\ log' = <<>>
  /\ exception' = ""
  /\ UNCHANGED <<fromFiducialList, toFiducialList, outputTransform, observers,
                 pc, pending, undone, unpaired>>
  /\ UNCHANGED ilVars

(***************************************************************************)
(* ImagelessUSCalibrationLogic: values                                     *)
(***************************************************************************)
\* the one vtkMRMLScriptedModuleNode of the session
CalibrationNode == "usCalibrationNode"
CalibrationNodes == {None, CalibrationNode}

\* a node attribute: GetAttribute gives None while it is not set
NoAttribute == [isSet |-> FALSE, value |-> ""]
Attribute(text) == [isSet |-> TRUE, value |-> text]

\* corner positions the stylus gives, per side of the probe; with the
\* probe-space x axis across the probe and y along each side's edge every
\* midpoint, cross product and norm below is an integer
MarkedCorners == { <<0, 0, 0>>, <<0, 2, 0>> }
UnmarkedCorners == { <<4, 0, 0>>, <<4, 2, 0>> }

\* what a caller hands to SetDepth: a number, or something else
Number(n) == [isNumber |-> TRUE, number |-> n, text |-> ""]
DepthArguments == { Number(100), Number(-5), [isNumber |-> FALSE, number |-> 0, text |-> "abc"] }

\* the numerals str() writes for the depths the model sets
Numerals == { d.number : d \in { a \in DepthArguments : a.isNumber } }

\* str( depth )
Str(value) == IF value.isNumber THEN ToString(value.number) ELSE value.text

\* float( text ): the number the text denotes, or a ValueError; float( None )
\* is a TypeError
Float(attribute) ==
  IF ~attribute.isSet
  THEN [raised |-> "TypeError", value |-> 0]
  ELSE IF \E n \in Numerals : ToString(n) = attribute.value
  THEN [raised |-> "", value |-> CHOOSE n \in Numerals : ToString(n) = attribute.value]
  ELSE [raised |-> "ValueError", value |-> 0]

\* the ultrasound image node: none selected, one without image data, one with
\* image data of the given dimensions
NoImage == [isNone |-> TRUE, hasData |-> FALSE, dimensions |-> <<0, 0, 0>>]
ImageNodes ==
  { NoImage,
    [isNone |-> FALSE, hasData |-> FALSE, dimensions |-> <<0, 0, 0>>],
    [isNone |-> FALSE, hasData |-> TRUE, dimensions |-> <<400, 500, 1>>],
    [isNone |-> FALSE, hasData |-> TRUE, dimensions |-> <<0, 0, 0>>] }

\* the output transform node; its matrix is kept as the transforms it was
\* concatenated from, in the order they apply to a point (<<>>: identity)
NoOutput == [isNone |-> TRUE, matrix |-> <<>>]
OutputNode == [isNone |-> FALSE, matrix |-> <<>>]

\* exact arithmetic: a fraction n/d in lowest terms, d > 0
RECURSIVE GCD(_, _)
GCD(a, b) == IF b = 0 THEN a ELSE GCD(b, a % b)
Abs(x) == IF x < 0 THEN -x ELSE x
Fraction(n, d) ==
  LET g == GCD(Abs(n), Abs(d))
      sign == IF d < 0 THEN -1 ELSE 1
  IN <<sign * (n \div g), sign * (d \div g)>>
Whole(n) == <<n, 1>>
Times(k, f) == Fraction(k * f[1], f[2])
\* a / b where b divides a
ExactDiv(a, b) == CHOOSE q \in (-Abs(a))..Abs(a) : q * b = a

\* vtkMath on integer triples
Add(a, b) == <<a[1] + b[1], a[2] + b[2], a[3] + b[3]>>
Subtract(a, b) == <<a[1] - b[1], a[2] - b[2], a[3] - b[3]>>
MultiplyScalar(a, k) == <<a[1] * k, a[2] * k, a[3] * k>>
\* MultiplyScalar( a, 0.5 )
Halve(a) == <<ExactDiv(a[1], 2), ExactDiv(a[2], 2), ExactDiv(a[3], 2)>>
Cross(a, b) ==
  <<a[2] * b[3] - a[3] * b[2], a[3] * b[1] - a[1] * b[3], a[1] * b[2] - a[2] * b[1]>>
Norm(a) == Sqrt(a[1] * a[1] + a[2] * a[2] + a[3] * a[3])
\* Normalize leaves a zero vector as it is
Normalize_None(a) == a

Normalize(a) ==
  IF Norm(a) = 0 THEN a
  ELSE <<ExactDiv(a[1], Norm(a)), ExactDiv(a[2], Norm(a)), ExactDiv(a[3], Norm(a))>>

(***************************************************************************)
(* ImagelessUSCalibrationLogic.ComputeCalibration                          *)
(***************************************************************************)
\* fewer than the two corner points a side needs
Insufficient_One(pointsList) == GetNumberOfFiducials(pointsList) < 1

Insufficient_Never(pointsList) == FALSE

Insufficient(pointsList) == GetNumberOfFiducials(pointsList) < 2

\* the four probe-space landmarks: unmarked near, marked near, unmarked far,
\* marked far
ProbeLandmarks_Latest(markedPointsList, unmarkedPointsList, depth) ==
  LET Latest(pointsList, n) ==
        GetNthFiducialPosition(pointsList, GetNumberOfFiducials(pointsList) - 2 + n)
      markedCorner1 == Latest(markedPointsList, 0)
      markedCorner2 == Latest(markedPointsList, 1)
      unmarkedCorner1 == Latest(unmarkedPointsList, 0)
      unmarkedCorner2 == Latest(unmarkedPointsList, 1)
      markedNearPoint == Halve(Add(markedCorner1, markedCorner2))
      unmarkedNearPoint == Halve(Add(unmarkedCorner1, unmarkedCorner2))
      markedUnmarkedVector == Subtract(unmarkedNearPoint, markedNearPoint)
      markedCornerVector == Subtract(markedCorner2, markedCorner1)
      unmarkedCornerVector == Subtract(unmarkedCorner2, unmarkedCorner1)
      markedFarVector == Normalize(Cross(markedUnmarkedVector, markedCornerVector))
      unmarkedFarVector == Normalize(Cross(markedUnmarkedVector, unmarkedCornerVector))
      markedFarPoint == Add(markedNearPoint, MultiplyScalar(markedFarVector, depth))
      unmarkedFarPoint == Add(unmarkedNearPoint, MultiplyScalar(unmarkedFarVector, depth))
  IN <<unmarkedNearPoint, markedNearPoint, unmarkedFarPoint, markedFarPoint>>

ProbeLandmarks(markedPointsList, unmarkedPointsList, depth) ==
  LET markedCorner1 == GetNthFiducialPosition(markedPointsList, 0)
      markedCorner2 == GetNthFiducialPosition(markedPointsList, 1)
      unmarkedCorner1 == GetNthFiducialPosition(unmarkedPointsList, 0)
      unmarkedCorner2 == GetNthFiducialPosition(unmarkedPointsList, 1)
      markedNearPoint == Halve(Add(markedCorner1, markedCorner2))
      unmarkedNearPoint == Halve(Add(unmarkedCorner1, unmarkedCorner2))
      markedUnmarkedVector == Subtract(unmarkedNearPoint, markedNearPoint)
      markedCornerVector == Subtract(markedCorner2, markedCorner1)
      unmarkedCornerVector == Subtract(unmarkedCorner2, unmarkedCorner1)
      markedFarVector == Normalize(Cross(markedUnmarkedVector, markedCornerVector))
      unmarkedFarVector == Normalize(Cross(markedUnmarkedVector, unmarkedCornerVector))
      markedFarPoint == Add(markedNearPoint, MultiplyScalar(markedFarVector, depth))
      unmarkedFarPoint == Add(unmarkedNearPoint, MultiplyScalar(unmarkedFarVector, depth))
  IN <<unmarkedNearPoint, markedNearPoint, unmarkedFarPoint, markedFarPoint>>

\* the four image corners in millimetres
ImageLandmarks_ColumnFirst(usImageDimensions, pixelsToMmScale, depth) ==
  << <<Whole(0), Whole(0), Whole(0)>>,
     <<Whole(0), Whole(depth), Whole(0)>>,
     <<Times(usImageDimensions[1], pixelsToMmScale), Whole(0), Whole(0)>>,
     <<Times(usImageDimensions[1], pixelsToMmScale), Whole(depth), Whole(0)>> >>

ImageLandmarks_PixelWidth(usImageDimensions, pixelsToMmScale, depth) ==
  << <<Whole(0), Whole(0), Whole(0)>>,
     <<Whole(usImageDimensions[1]), Whole(0), Whole(0)>>,
     <<Whole(0), Whole(depth), Whole(0)>>,
     <<Whole(usImageDimensions[1]), Whole(depth), Whole(0)>> >>

ImageLandmarks(usImageDimensions, pixelsToMmScale, depth) ==
  << <<Whole(0), Whole(0), Whole(0)>>,
     <<Times(usImageDimensions[1], pixelsToMmScale), Whole(0), Whole(0)>>,
     <<Whole(0), Whole(depth), Whole(0)>>,
     <<Times(usImageDimensions[1], pixelsToMmScale), Whole(depth), Whole(0)>> >>

\* frwNode.SetRegistrationModeToSimilarity(): the mode the pointer-based
\* SetupCalibrationNode gives the fiducial registration
SetRegistrationModeToSimilarity == "Similarity"

\* vtkLandmarkTransform in the mode ComputeCalibration sets
LandmarkTransform_Similarity(source, target) ==
  [transform |-> "vtkLandmarkTransform", mode |-> "Similarity",
   source |-> source, target |-> target]

LandmarkTransform(source, target) ==
  [transform |-> "vtkLandmarkTransform", mode |-> "RigidBody",
   source |-> source, target |-> target]
\* vtkTransform.Scale( [ s, s, s ] )
ScaleTransform(factor) == [transform |-> "Scale", factor |-> factor]
\* vtkTransform.Concatenate after PreMultiply(): the new transform applies
\* to a point before the ones already there
Concatenate_PostMultiply(applied, transform) == applied \o <<transform>>

Concatenate(applied, transform) == <<transform>> \o applied

\* vtk.vtkTransform(): a new transform is the identity
NewTransform_OutputMatrix(session) == session.output.matrix

NewTransform(session) == <<>>

\* imageToProbeTransformNode.SetMatrixTransformToParent( imageToProbeMatrix ):
\* the matrices the output node is given, in order; the composition is built
\* in a transform of its own and handed over in one call
SetMatrixTransformToParent_Staged(imageToProbeTransform) ==
  << SubSeq(imageToProbeTransform, 2, Len(imageToProbeTransform)),
     imageToProbeTransform >>

SetMatrixTransformToParent(imageToProbeTransform) == <<imageToProbeTransform>>

\* the calibration node with what it refers to, as ComputeCalibration reads it
Session ==
  [marked |-> markedPoints, unmarked |-> unmarkedPoints, depth |-> depthAttr,
   message |-> outputMessage, image |-> usImage, output |-> imageToProbe]

\* the end of ComputeCalibration, once every input is there: the two
\* transforms, their composition, the write to the output node and "Success!"
Calibrate(session, depth) ==
  LET usImageDimensions == session.image.dimensions
      pixelsToMmScale == Fraction(depth, usImageDimensions[2])
      imagePixelToImageMm == ScaleTransform(pixelsToMmScale)
      imageMmToProbe ==
        LandmarkTransform(ImageLandmarks(usImageDimensions, pixelsToMmScale, depth),
                          ProbeLandmarks(session.marked, session.unmarked, depth))
      imageToProbeTransform ==
        Concatenate(Concatenate(NewTransform(session), imageMmToProbe),
                    imagePixelToImageMm)
  IN CHOOSE success \in
       { [message |-> Attribute("Success!"),
          transform |-> [isNone |-> FALSE, matrix |-> writes[Len(writes)]],
          raised |-> "",
          writes |-> writes,
          set |-> TRUE] :
           writes \in {SetMatrixTransformToParent(imageToProbeTransform)} } : TRUE

\* a run that leaves everything as it is, one that only sets the
\* OutputMessage attribute, and one that ends with an exception
Unchanged(session) ==
  [message |-> session.message, transform |-> session.output,
   raised |-> "", writes |-> <<>>, set |-> FALSE]

Status(session, text) ==
  [message |-> Attribute(text), transform |-> session.output,
   raised |-> "", writes |-> <<>>, set |-> TRUE]

Raise(session, name) ==
  [message |-> session.message, transform |-> session.output,
   raised |-> name, writes |-> <<>>, set |-> FALSE]

\* the checks in another order: the output transform looked for before the
\* depth and the image
ComputeCalibration_OutputFirst(usCalibrationNode, session) ==
  LET depthRead == Float(session.depth)
  IN
  IF usCalibrationNode = None THEN Unchanged(session)
  ELSE IF session.marked.isNone \/ session.unmarked.isNone THEN Unchanged(session)
  ELSE IF Insufficient(session.marked)
  THEN Status(session, "Insufficient number of marked corner points selected.")
  ELSE IF Insufficient(session.unmarked)
  THEN Status(session, "Insufficient number of unmarked corner points selected.")
  ELSE IF session.output.isNone
  THEN Status(session, "No output ImageToProbe transform specified.")
  ELSE IF depthRead.raised = "TypeError"
  THEN Status(session, "Depth improperly specified.")
  ELSE IF depthRead.raised # ""
  THEN Raise(session, depthRead.raised)
  ELSE IF session.image.isNone \/ ~session.image.hasData
  THEN Status(session, "No ultrasound image is selected.")
  ELSE IF session.image.dimensions[2] = 0
  THEN Raise(session, "ZeroDivisionError")
  ELSE Calibrate(session, depthRead.value)

\* What one run of ComputeCalibration( usCalibrationNode, listNode, eventid )
\* leaves: the OutputMessage attribute, the output transform node, the
\* exception it ended with ("" when it returned), the matrices it gave the
\* output node and whether it set the OutputMessage attribute
ComputeCalibration(usCalibrationNode, session) ==
  LET depthRead == Float(session.depth)
  IN
  IF usCalibrationNode = None THEN Unchanged(session)
  ELSE IF session.marked.isNone \/ session.unmarked.isNone THEN Unchanged(session)
  ELSE IF Insufficient(session.marked)
  THEN Status(session, "Insufficient number of marked corner points selected.")
  ELSE IF Insufficient(session.unmarked)
  THEN Status(session, "Insufficient number of unmarked corner points selected.")
  ELSE IF depthRead.raised = "TypeError"
  THEN Status(session, "Depth improperly specified.")
  ELSE IF depthRead.raised # ""
  THEN Raise(session, depthRead.raised)
  ELSE IF session.image.isNone \/ ~session.image.hasData
  THEN Status(session, "No ultrasound image is selected.")
  ELSE IF session.image.dimensions[2] = 0
  THEN Raise(session, "ZeroDivisionError")
  ELSE IF session.output.isNone
  THEN Status(session, "No output ImageToProbe transform specified.")
  ELSE Calibrate(session, depthRead.value)

(***************************************************************************)
(* ImagelessUSCalibrationLogic: the operations                             *)
(***************************************************************************)
\* usCalibrationNode.SetAttribute( "OutputMessage", value ): the node's
\* ModifiedEvent is raised when the value differs from the one already there
SetAttribute_Always(attribute, value) == TRUE

SetAttribute(attribute, value) == attribute # value

\* The n ComputeCalibration observers one ModifiedEvent calls, one after the
\* other, each on what the run before it left. A run whose SetAttribute
\* modifies the calibration node raises that node's ModifiedEvent inside the
\* run: its observers (ilObservers of them) run nested, before the run's
\* caller goes on. An exception ends the run it is raised in, not the others.
\* nesting is the depth of the deepest event a run answered (0: no run); the
\* nesting is followed down to MaxNesting and cut one below it.
RECURSIVE RunObservers(_, _, _)
RunObservers(session, n, nesting) ==
  LET ended(deepest) == [message |-> session.message, transform |-> session.output,
                         raised |-> "", writes |-> <<>>, nesting |-> deepest]
      following(run) == [session EXCEPT !.message = run.message,
                                        !.output = run.transform]
  IN
  IF n = 0 THEN ended(nesting - 1)
  ELSE IF nesting > MaxNesting THEN ended(nesting)
  ELSE CHOOSE runs \in UNION { UNION { {
         [message |-> rest.message,
          transform |-> rest.transform,
          raised |-> IF first.raised # "" THEN first.raised
                     ELSE IF nested.raised # "" THEN nested.raised
                     ELSE rest.raised,
          writes |-> first.writes \o nested.writes \o rest.writes,
          nesting |-> Max(nesting, Max(nested.nesting, rest.nesting))] :
           rest \in {RunObservers(following(nested), n - 1, nesting)} } :
           nested \in {RunObservers(following(first),
                                    IF first.set /\ SetAttribute(session.message,
                                                                 first.message)
                                    THEN ilObservers ELSE 0,
                                    nesting + 1)} } :
           first \in {ComputeCalibration(CalibrationNode, session)} } : TRUE

\* An operation leaves the session as `session`; when it modified a node that
\* ComputeCalibration observes (modified, and SetupCalibrationNode has
\* registered the observers) the observers run before the operation returns.
Returns(opName, usCalibrationNode, session, modified, warnings) ==
  LET observed == modified /\ ilObservers > 0
  IN \E result \in {RunObservers(session, IF observed THEN ilObservers ELSE 0, 1)} :
     /\ markedPoints' = session.marked
     /\ unmarkedPoints' = session.unmarked
     /\ depthAttr' = session.depth
     /\ usImage' = session.image
     /\ outputMessage' = result.message
     /\ imageToProbe' = result.transform
     /\ exception' = result.raised
     /\ pre' = [computed |-> observed,
                written |-> { result.writes[i] : i \in 1..Len(result.writes) },
                nesting |-> result.nesting]
     /\ UNCHANGED called
     /\ log' = warnings
     /\ UNCHANGED pbVars

\* SetupCalibrationNode( usCalibrationNode ): creates the lists the node lacks
\* and registers ComputeCalibration on both lists and on the node
IL_SetupCalibrationNode_Fresh(usCalibrationNode) ==
  /\ ilObservers < MaxObservers
  /\ ilObservers' = IF usCalibrationNode = None THEN ilObservers ELSE ilObservers + 1
  /\ LET created ==
           [Session EXCEPT !.marked = NewList("Marked_Points"),
                           !.unmarked = NewList("Unmarked_Points")]
     IN Returns("SetupCalibrationNode", usCalibrationNode,
                IF usCalibrationNode = None THEN Session ELSE created, FALSE, <<>>)

IL_SetupCalibrationNode(usCalibrationNode) ==
  /\ ilObservers < MaxObservers
  /\ ilObservers' = IF usCalibrationNode = None THEN ilObservers ELSE ilObservers + 1
  /\ LET created ==
           [Session EXCEPT
              !.marked = IF @.isNone THEN NewList("Marked_Points") ELSE @,
              !.unmarked = IF @.isNone THEN NewList("Unmarked_Points") ELSE @]
     IN Returns("SetupCalibrationNode", usCalibrationNode,
                IF usCalibrationNode = None THEN Session ELSE created, FALSE, <<>>)

AlreadySelected ==
  "Newly selected points not used. Points list already contains previously selected points."

SelectMarkedPoint(usCalibrationNode, frwLogic, p) ==
  /\ UNCHANGED ilObservers
  /\ IF usCalibrationNode = None \/ markedPoints.isNone
     THEN Returns("SelectMarkedPoint", usCalibrationNode, Session, FALSE, <<>>)
     ELSE LET warnings == IF GetNumberOfFiducials(markedPoints) >= 2
                          THEN <<AlreadySelected>> ELSE <<>>
          IN IF frwLogic = None
             THEN Returns("SelectMarkedPoint", usCalibrationNode, Session, FALSE, warnings)
             ELSE Returns("SelectMarkedPoint", usCalibrationNode,
                          [Session EXCEPT !.marked = AddFiducial(@, p)], TRUE, warnings)

\* a reset that empties the other side's list as well
ResetMarkedPoints_Both(usCalibrationNode) ==
  /\ UNCHANGED ilObservers
  /\ IF usCalibrationNode = None \/ markedPoints.isNone
     THEN Returns("ResetMarkedPoints", usCalibrationNode, Session, FALSE, <<>>)
     ELSE Returns("ResetMarkedPoints", usCalibrationNode,
                  [Session EXCEPT !.marked = RemoveAllMarkups(@),
                                  !.unmarked = RemoveAllMarkups(@)], TRUE, <<>>)

ResetMarkedPoints(usCalibrationNode) ==
  /\ UNCHANGED ilObservers
  /\ IF usCalibrationNode = None \/ markedPoints.isNone
     THEN Returns("ResetMarkedPoints", usCalibrationNode, Session, FALSE, <<>>)
     ELSE Returns("ResetMarkedPoints", usCalibrationNode,
                  [Session EXCEPT !.marked = RemoveAllMarkups(@)], TRUE, <<>>)

SelectUnmarkedPoint(usCalibrationNode, frwLogic, p) ==
  /\ UNCHANGED ilObservers
  /\ IF usCalibrationNode = None \/ unmarkedPoints.isNone
     THEN Returns("SelectUnmarkedPoint", usCalibrationNode, Session, FALSE, <<>>)
     ELSE LET warnings == IF GetNumberOfFiducials(unmarkedPoints) >= 2
                          THEN <<AlreadySelected>> ELSE <<>>
          IN IF frwLogic = None
             THEN Returns("SelectUnmarkedPoint", usCalibrationNode, Session, FALSE, warnings)
             ELSE Returns("SelectUnmarkedPoint", usCalibrationNode,
                          [Session EXCEPT !.unmarked = AddFiducial(@, p)], TRUE, warnings)

ResetUnmarkedPoints(usCalibrationNode) ==
  /\ UNCHANGED ilObservers
  /\ IF usCalibrationNode = None \/ unmarkedPoints.isNone
     THEN Returns("ResetUnmarkedPoints", usCalibrationNode, Session, FALSE, <<>>)
     ELSE Returns("ResetUnmarkedPoints", usCalibrationNode,
                  [Session EXCEPT !.unmarked = RemoveAllMarkups(@)], TRUE, <<>>)

\* SetImageToProbeTransform( imageToProbeNode, usCalibrationNode ): the node
\* keeps the matrix it has
IL_SetImageToProbeTransform(imageToProbeNode, usCalibrationNode) ==
  /\ UNCHANGED ilObservers
  /\ IF usCalibrationNode = None \/ imageToProbeNode.isNone
     THEN Returns("SetImageToProbeTransform", usCalibrationNode, Session, FALSE, <<>>)
     ELSE Returns("SetImageToProbeTransform", usCalibrationNode,
                  [Session EXCEPT !.output = IF @.isNone THEN imageToProbeNode ELSE @],
                  imageToProbe.isNone, <<>>)

\* SetDepth( depth, usCalibrationNode ): SetAttribute raises the node's
\* ModifiedEvent when the value changes
SetDepth_Unobserved(depth, usCalibrationNode) ==
  /\ UNCHANGED ilObservers
  /\ IF usCalibrationNode = None
     THEN Returns("SetDepth", usCalibrationNode, Session, FALSE, <<>>)
     ELSE Returns("SetDepth", usCalibrationNode,
                  [Session EXCEPT !.depth = Attribute(Str(depth))], FALSE, <<>>)

SetDepth(depth, usCalibrationNode) ==
  /\ UNCHANGED ilObservers
  /\ IF usCalibrationNode = None
     THEN Returns("SetDepth", usCalibrationNode, Session, FALSE, <<>>)
     ELSE Returns("SetDepth", usCalibrationNode,
                  [Session EXCEPT !.depth = Attribute(Str(depth))],
                  depthAttr # Attribute(Str(depth)), <<>>)

\* onUSImageNodeChanged: the widget makes the selected image the node's
\* UltrasoundImage reference
onUSImageNodeChanged(usImageNode, usCalibrationNode) ==
  /\ UNCHANGED ilObservers
  /\ IF usCalibrationNode = None
     THEN Returns("onUSImageNodeChanged", usCalibrationNode, Session, FALSE, <<>>)
     ELSE Returns("onUSImageNodeChanged", usCalibrationNode,
                  [Session EXCEPT !.image = usImageNode], usImage # usImageNode, <<>>)

(***************************************************************************)
(* The pointer-based module's point lists                                  *)
(***************************************************************************)
InitImageless ==
  /\ markedPoints = NoList
  /\ unmarkedPoints = NoList
  /\ depthAttr = NoAttribute
  /\ outputMessage = NoAttribute
  /\ usImage = NoImage
  /\ imageToProbe = NoOutput
  /\ ilObservers = 0

InitPointer ==
  /\ fromFiducialList = NoList
  /\ toFiducialList = NoList
  /\ outputTransform = NoTransform
  /\ observers = 0
  /\ pc = "idle"
  /\ pending = 0
  /\ errorList = <<>>
  /\ undone = NoUndone
  /\ unpaired = FALSE
  /\ log = <<>>
  /\ exception = ""
  /\ called = Call("Init", None, 0)
  /\ pre = [from |-> <<>>, to |-> <<>>]
  /\ InitImageless

FrwNodes == {None, FrwNode}

NextPointer ==
  \/ \E frwNode \in FrwNodes : PB_SetupCalibrationNode(frwNode)
  \/ \E p \in ImagePoints : PlaceImagePoint(FrwNode, p)
  \/ \E frwLogic \in {None, FrwLogic}, p \in ProbePoints : MarkupAddedObserver(frwLogic, p)
  \/ \E frwNode \in FrwNodes : UndoPoints(frwNode)
  \/ \E frwNode \in FrwNodes : ResetPoints(frwNode)
  \/ \E frwNode \in FrwNodes, n \in 0..MaxPlaced : DeleteNthPoint(frwNode, n)

SpecPointer == InitPointer /\ [][NextPointer]_vars

(***************************************************************************)
(* ComputeErrors on drawn inputs                                           *)
(***************************************************************************)
\* the lists of up to MaxLen fiducials a session can hold
DrawnLists(listName, points) ==
  {NoList} \cup
  UNION { { [isNone |-> FALSE, name |-> listName,
             markups |-> [i \in 1..n |->
                            [label |-> listName \o "-" \o ToString(i), pos |-> f[i]]],
             lastId |-> n] : f \in [1..n -> points] } : n \in 0..MaxLen }

InitErrors ==
  /\ fromFiducialList \in DrawnLists("Image_Points", ImagePoints)
  /\ toFiducialList \in DrawnLists("Probe_Points", ProbePoints)
  /\ outputTransform \in TransformNodes
  /\ observers = 0
  /\ pc = "idle"
  /\ pending = 0
  /\ errorList = <<>>
  /\ undone = NoUndone
  /\ unpaired = FALSE
  /\ log = <<>>
  /\ exception = ""
  /\ called = Call("Init", None, 0)
  /\ pre = [from |-> <<>>, to |-> <<>>]
  /\ InitImageless

NextErrors ==
  \/ \E node \in TransformNodes, frwNode \in FrwNodes :
       PB_SetImageToProbeTransform(node, frwNode)
  \/ \E frwNode \in FrwNodes : ComputeErrorsCall(frwNode)

SpecErrors == InitErrors /\ [][NextErrors]_vars

(***************************************************************************)
(* The imageless module                                                    *)
(***************************************************************************)
InitImagelessSession ==
  /\ InitImageless
  /\ fromFiducialList = NoList
  /\ toFiducialList = NoList
  /\ outputTransform = NoTransform
  /\ observers = 0
  /\ pc = "idle"
  /\ pending = 0
  /\ errorList = <<>>
  /\ undone = NoUndone
  /\ unpaired = FALSE
  /\ log = <<>>
  /\ exception = ""
  /\ called = Call("Init", None, 0)
  /\ pre = [computed |-> FALSE, written |-> {}, nesting |-> 0]

NextImageless ==
  \/ \E node \in CalibrationNodes : IL_SetupCalibrationNode(node)
  \/ \E node \in CalibrationNodes, frwLogic \in {None, FrwLogic}, p \in MarkedCorners :
       markedPoints.lastId < MaxCorners /\ SelectMarkedPoint(node, frwLogic, p)
  \/ \E node \in CalibrationNodes : ResetMarkedPoints(node)
  \/ \E node \in CalibrationNodes, frwLogic \in {None, FrwLogic}, p \in UnmarkedCorners :
       unmarkedPoints.lastId < MaxCorners /\ SelectUnmarkedPoint(node, frwLogic, p)
  \/ \E node \in CalibrationNodes : ResetUnmarkedPoints(node)
  \/ \E node \in CalibrationNodes, output \in {NoOutput, OutputNode} :
       IL_SetImageToProbeTransform(output, node)
  \/ \E node \in CalibrationNodes, depth \in DepthArguments : SetDepth(depth, node)
  \/ \E node \in CalibrationNodes, image \in ImageNodes : onUSImageNodeChanged(image, node)

SpecImageless == InitImagelessSession /\ [][NextImageless]_vars

(***************************************************************************)
(* Sessions that hold points: what resetting, selecting a further point    *)
(* and setting the session up again do to them                             *)
(***************************************************************************)
\* a pointer-based session SetupCalibrationNode has set up, its lists as
\* placements with and without a paired probe point leave them
InitPointerSession ==
  /\ fromFiducialList \in DrawnLists("Image_Points", ImagePoints) \ {NoList}
  /\ toFiducialList \in
       { list \in DrawnLists("Probe_Points", ProbePoints) \ {NoList} :
           GetNumberOfFiducials(list) <= GetNumberOfFiducials(fromFiducialList) }
  /\ outputTransform \in TransformNodes
  /\ observers = 1
  /\ pc = "idle"
  /\ pending = 0
  /\ errorList = <<>>
  /\ undone = NoUndone
  /\ unpaired = (GetNumberOfFiducials(fromFiducialList)
                   # GetNumberOfFiducials(toFiducialList))
  /\ log = <<>>
  /\ exception = ""
  /\ called = Call("Init", None, 0)
  /\ pre = [from |-> <<>>, to |-> <<>>]
  /\ InitImageless

\* an imageless session SetupCalibrationNode has set up, with up to MaxCorners
\* points selected per side, an image selected, a depth and an output
\* transform set or not; the status and the output matrix are what the
\* recomputation left
InitSelectedSession ==
  /\ markedPoints \in
       { list \in DrawnLists("Marked_Points", MarkedCorners) \ {NoList} :
           GetNumberOfFiducials(list) <= MaxCorners }
  /\ unmarkedPoints \in
       { list \in DrawnLists("Unmarked_Points", UnmarkedCorners) \ {NoList} :
           GetNumberOfFiducials(list) <= MaxCorners }
  /\ depthAttr \in {NoAttribute}
                     \cup { Attribute(Str(d)) :
                              d \in { a \in DepthArguments : a.isNumber /\ a.number > 0 } }
  /\ usImage \in { image \in ImageNodes : image.hasData /\ image.dimensions[2] # 0 }
  /\ ilObservers = 1
  /\ \E output \in {NoOutput, OutputNode} :
       \E run \in { ComputeCalibration(CalibrationNode,
                      [marked |-> markedPoints, unmarked |-> unmarkedPoints,
                       depth |-> depthAttr, message |-> NoAttribute,
                       image |-> usImage, output |-> output]) } :
         /\ outputMessage = run.message
         /\ imageToProbe = run.transform
  /\ fromFiducialList = NoList
  /\ toFiducialList = NoList
  /\ outputTransform = NoTransform
  /\ observers = 0
  /\ pc = "idle"
  /\ pending = 0
  /\ errorList = <<>>
  /\ undone = NoUndone
  /\ unpaired = FALSE
  /\ log = <<>>
  /\ exception = ""
  /\ called = Call("Init", None, 0)
  /\ pre = [computed |-> FALSE, written |-> {}, nesting |-> 0]

InitSessions == InitPointerSession \/ InitSelectedSession

\* the operations on the session that is set up
NextSessions ==
  \/ \E frwNode \in FrwNodes : observers > 0 /\ PB_SetupCalibrationNode(frwNode)
  \/ \E frwNode \in FrwNodes : observers > 0 /\ ResetPoints(frwNode)
  \/ \E node \in CalibrationNodes : ilObservers > 0 /\ IL_SetupCalibrationNode(node)
  \/ \E node \in CalibrationNodes, frwLogic \in {None, FrwLogic}, p \in MarkedCorners :
       /\ ilObservers > 0
       /\ markedPoints.lastId < MaxSelected
       /\ SelectMarkedPoint(node, frwLogic, p)
  \/ \E node \in CalibrationNodes : ilObservers > 0 /\ ResetMarkedPoints(node)
  \/ \E node \in CalibrationNodes, frwLogic \in {None, FrwLogic}, p \in UnmarkedCorners :
       /\ ilObservers > 0
       /\ unmarkedPoints.lastId < MaxSelected
       /\ SelectUnmarkedPoint(node, frwLogic, p)
  \/ \E node \in CalibrationNodes : ilObservers > 0 /\ ResetUnmarkedPoints(node)

SpecSessions == InitSessions /\ [][NextSessions]_vars

(***************************************************************************)
(* Claims about the point lists, under SpecPointer                         *)
(***************************************************************************)
NumFrom == Len(fromFiducialList.markups)
NumTo == Len(toFiducialList.markups)
\* the last operation was called on the session and found both lists
OnSession == called.node # None /\ ~fromFiducialList.isNone /\ ~toFiducialList.isNone
\* the observers of the current placement that have run
ObserversRun == observers - pending

C2_Case ==
  /\ called.name = "PlaceImagePoint"
  /\ ObserversRun > 0
  /\ Len(pre.from) + 1 - Len(pre.to) > 1

\* what every handling of such a notification leaves: nothing raised, no point
\* appended to either list, the placement not paired
C2_Suspended ==
  /\ exception = ""
  /\ toFiducialList.markups = pre.to
  /\ NumFrom = Len(pre.from) + 1
  /\ SubSeq(fromFiducialList.markups, 1, Len(pre.from)) = pre.from
  /\ ~called.paired

C3_AppendUndoRoundTrip ==
  (undone.valid /\ undone.paired /\ Len(undone.from) = Len(undone.to)) =>
    /\ fromFiducialList.markups = undone.from
    /\ toFiducialList.markups = undone.to

C3_Witness ==
  /\ undone.valid
  /\ undone.paired
  /\ called.name = "UndoPoints"
  /\ Len(undone.from) = 2
  /\ Len(undone.to) = 2
  /\ NumFrom = 2

\* a sequence without its last entry
Front(seq) == SubSeq(seq, 1, Len(seq) - 1)

\* C4: UndoPoints removes the last entry of each list that is non-empty and
\* nothing else; an empty list stays empty, also when the other list is not
\* empty; nothing is raised.
C4_UndoRemovesLast ==
  (called.name = "UndoPoints" /\ OnSession) =>
    /\ fromFiducialList.markups = (IF pre.from = <<>> THEN <<>> ELSE Front(pre.from))
    /\ toFiducialList.markups = (IF pre.to = <<>> THEN <<>> ELSE Front(pre.to))
    /\ exception = ""

C4_Witness ==
  /\ called.name = "UndoPoints"
  /\ OnSession
  /\ pre.to = <<>>
  /\ Len(pre.from) = 2
  /\ NumFrom = 1
  /\ NumTo = 0

\* C5: DeleteNthPoint(n) with n at or beyond the length of a list leaves that
\* list as it was, and raises nothing.
C5_DeleteBeyondLength ==
  called.name = "DeleteNthPoint" =>
    /\ (called.n >= Len(pre.from) => fromFiducialList.markups = pre.from)
    /\ (called.n >= Len(pre.to) => toFiducialList.markups = pre.to)
    /\ exception = ""

C5_Witness ==
  /\ called.name = "DeleteNthPoint"
  /\ OnSession
  /\ called.n >= Len(pre.to)
  /\ called.n < Len(pre.from)
  /\ Len(pre.to) = 1
  /\ NumTo = 1
  /\ NumFrom = Len(pre.from) - 1

C7_ErrorsEmpty ==
  (/\ called.name = "ComputeErrors"
   /\ \/ called.node = None
      \/ fromFiducialList.isNone
      \/ toFiducialList.isNone
      \/ outputTransform.isNone
      \/ NumFrom # NumTo
      \/ NumFrom < 3) =>
    (errorList = <<>> /\ exception = "")

C7_Witness ==
  /\ called.name = "ComputeErrors"
  /\ OnSession
  /\ ~outputTransform.isNone
  /\ NumFrom = 3
  /\ NumTo = 2
  /\ errorList = <<>>

\* the transform applied to a position, row by row
Transformed(matrix, p) ==
  [r \in 1..3 |-> matrix[r][1] * p[1] + matrix[r][2] * p[2] + matrix[r][3] * p[3]
                    + matrix[r][4]]

\* C8: with both lists of the same length N >= 3 and an output transform,
\* ComputeErrors returns N records in index order; record i holds the label
\* of image point i, the label of probe point i and the distance (>= 0)
\* between probe point i and the transform applied to image point i.
C8_ErrorRecords ==
  (/\ called.name = "ComputeErrors"
   /\ OnSession
   /\ ~outputTransform.isNone
   /\ NumFrom = NumTo
   /\ NumFrom >= 3) =>
    /\ Len(errorList) = NumFrom
    /\ \A i \in 1..NumFrom :
         LET d == errorList[i][3]
             moved == Transformed(outputTransform.matrix, fromFiducialList.markups[i].pos)
             q == toFiducialList.markups[i].pos
         IN /\ errorList[i][1] = fromFiducialList.markups[i].label
            /\ errorList[i][2] = toFiducialList.markups[i].label
            /\ d >= 0
            /\ d * d = (moved[1] - q[1]) * (moved[1] - q[1])
                         + (moved[2] - q[2]) * (moved[2] - q[2])
                         + (moved[3] - q[3]) * (moved[3] - q[3])

C8_Witness ==
  /\ called.name = "ComputeErrors"
  /\ OnSession
  /\ outputTransform = [isNone |-> FALSE, matrix |-> Translate12]
  /\ Len(errorList) = 3
  /\ errorList[1][3] = 12
  /\ errorList[2][3] = 13
  /\ errorList[3][3] = 12

(***************************************************************************)
(* Claims about the imageless calibration, under SpecImageless             *)
(***************************************************************************)
\* ComputeCalibration has run, on existing lists, in the operation that led
\* to the state
Computed == pre.computed /\ ~markedPoints.isNone /\ ~unmarkedPoints.isNone

TooFewMarked == GetNumberOfFiducials(markedPoints) < 2
TooFewUnmarked == GetNumberOfFiducials(unmarkedPoints) < 2

\* C9: whenever the marked or the unmarked list holds fewer than 2 points, a
\* run of ComputeCalibration sets the insufficient-points status of that side
\* (the marked side's when both are short) and leaves the output ImageToProbe
\* transform as it was before the run: its matrix, which no other step of an
\* operation writes, is the matrix from before the operation.
C9_InsufficientPoints ==
  [][ (Computed /\ (TooFewMarked \/ TooFewUnmarked))' =>
        /\ outputMessage' =
             Attribute(IF TooFewMarked'
                       THEN "Insufficient number of marked corner points selected."
                       ELSE "Insufficient number of unmarked corner points selected.")
        /\ imageToProbe'.matrix = imageToProbe.matrix
        /\ exception' = "" ]_vars

\* a run on two marked points and one unmarked point or none that keeps a matrix
\* an earlier run has computed
C9_Witness ==
  /\ Computed
  /\ ~TooFewMarked
  /\ TooFewUnmarked
  /\ outputMessage = Attribute("Insufficient number of unmarked corner points selected.")
  /\ ~imageToProbe.isNone
  /\ imageToProbe.matrix # OutputNode.matrix

\* the stored depth is not a non-negative number: never set, not a numeral, or
\* a negative numeral
DepthNotNonNegative ==
  \/ ~depthAttr.isSet
  \/ \A n \in Numerals : ToString(n) = depthAttr.value => n < 0

\* C10: for every stored depth that is not parseable as a non-negative number
\* (never set, non-numeric text, a negative number) a run of ComputeCalibration
\* on two points per side sets the status "Depth improperly specified." and
\* does not update the output transform.
C10_DepthImproperlySpecified ==
  [][ (Computed /\ ~TooFewMarked /\ ~TooFewUnmarked /\ DepthNotNonNegative)' =>
        /\ outputMessage' = Attribute("Depth improperly specified.")
        /\ imageToProbe'.matrix = imageToProbe.matrix ]_vars

\* two corner points on each side
EnoughPoints == ~TooFewMarked /\ ~TooFewUnmarked

\* the stored depth reads as a number
DepthReads == Float(depthAttr).raised = ""

\* C11: when no ultrasound image is selected, the image has no data, or the
\* image height in pixels is 0, a run of ComputeCalibration that got as far as
\* the image (two points per side, a depth that reads as a number) sets the
\* status "No ultrasound image is selected." and does not update the output
\* transform.
C11_NoUltrasoundImage ==
  [][ (Computed /\ EnoughPoints /\ DepthReads
         /\ (usImage.isNone \/ ~usImage.hasData \/ usImage.dimensions[2] = 0))' =>
        /\ outputMessage' = Attribute("No ultrasound image is selected.")
        /\ imageToProbe'.matrix = imageToProbe.matrix ]_vars

\* C12: for every combination of inputs a run of ComputeCalibration ends with a
\* status message set and without an exception.
C12_AlwaysStatusNeverException ==
  Computed => (exception = "" /\ outputMessage.isSet)

\* the two corner points a side's edge is taken from coincide
Coincident(pointsList) ==
  GetNthFiducialPosition(pointsList, 0) = GetNthFiducialPosition(pointsList, 1)

\* C13: when the corner points are degenerate (the two corners of a side
\* coincide, so that side's depth direction is the zero vector) a run of
\* ComputeCalibration reports a failure, never "Success!", and leaves the
\* output transform as it was.
C13_DegenerateReported ==
  [][ (Computed /\ EnoughPoints
         /\ (Coincident(markedPoints) \/ Coincident(unmarkedPoints)))' =>
        /\ outputMessage' # Attribute("Success!")
        /\ imageToProbe'.matrix = imageToProbe.matrix ]_vars

\* the last operation ran ComputeCalibration and it ended in "Success!" (a run
\* that raises leaves the message of the run before it)
Succeeded == Computed /\ exception = "" /\ outputMessage = Attribute("Success!")

\* what the output matrix was composed of: the transform applied to a point
\* first and the one applied second
AppliedFirst == imageToProbe.matrix[1]
AppliedSecond == imageToProbe.matrix[2]

\* the middle of a side's two corner points, and the point the depth away from
\* it along the unit normal of the across vector and the side's edge
NearPoint(pointsList) ==
  Halve(Add(GetNthFiducialPosition(pointsList, 0), GetNthFiducialPosition(pointsList, 1)))
FarPoint(pointsList) ==
  LET across == Subtract(NearPoint(unmarkedPoints), NearPoint(markedPoints))
      edge == Subtract(GetNthFiducialPosition(pointsList, 1),
                       GetNthFiducialPosition(pointsList, 0))
  IN Add(NearPoint(pointsList),
         MultiplyScalar(Normalize(Cross(across, edge)), Float(depthAttr).value))

\* the image width and the depth in millimetres
WidthMm == Fraction(usImage.dimensions[1] * Float(depthAttr).value, usImage.dimensions[2])
DepthMm == Whole(Float(depthAttr).value)

\* C14: the four probe-space landmarks are assembled in the order unmarked
\* near, marked near, unmarked far, marked far and are paired index by index
\* with the image corners (0,0), (width,0), (0,depth), (width,depth).
C14_LandmarkOrder ==
  Succeeded =>
    /\ AppliedSecond.target =
         << NearPoint(unmarkedPoints), NearPoint(markedPoints),
            FarPoint(unmarkedPoints), FarPoint(markedPoints) >>
    /\ AppliedSecond.source =
         << <<Whole(0), Whole(0), Whole(0)>>, <<WidthMm, Whole(0), Whole(0)>>,
            <<Whole(0), DepthMm, Whole(0)>>, <<WidthMm, DepthMm, Whole(0)>> >>

\* a successful run on corner points that differ on both sides, so that the
\* four probe-space landmarks are four different points
C14_Witness ==
  /\ Succeeded
  /\ ~Coincident(markedPoints)
  /\ ~Coincident(unmarkedPoints)
  /\ Cardinality({ AppliedSecond.target[i] : i \in 1..4 }) = 4

\* C15: the pixel-to-mm scale is depth / height_px and the image-mm corners are
\* (0,0,0), (width_px*scale,0,0), (0,depth,0), (width_px*scale,depth,0); for
\* depth 100, height 500 and width 400 the scale is 0.2 (1/5) and the corners
\* are (0,0,0), (80,0,0), (0,100,0), (80,100,0).
C15_ScaleAndCorners ==
  Succeeded =>
    LET depth == Float(depthAttr).value
        scale == AppliedFirst.factor
        corners == AppliedSecond.source
    IN /\ scale[1] * usImage.dimensions[2] = depth * scale[2]
       /\ \A i \in 1..4 : corners[i][3] = Whole(0)
       /\ \A i \in {1, 3} : corners[i][1] = Whole(0)
       /\ \A i \in {2, 4} :
            corners[i][1][1] * scale[2] = usImage.dimensions[1] * scale[1] * corners[i][1][2]
       /\ \A i \in {1, 2} : corners[i][2] = Whole(0)
       /\ \A i \in {3, 4} : corners[i][2] = Whole(depth)
       /\ (depth = 100 /\ usImage.dimensions = <<400, 500, 1>>) =>
            /\ scale = <<1, 5>>
            /\ corners = << <<Whole(0), Whole(0), Whole(0)>>, <<Whole(80), Whole(0), Whole(0)>>,
                            <<Whole(0), Whole(100), Whole(0)>>, <<Whole(80), Whole(100), Whole(0)>> >>

\* a successful run with depth 100 on the image of 400 x 500 pixels
C15_Witness ==
  /\ Succeeded
  /\ depthAttr = Attribute("100")
  /\ usImage.dimensions = <<400, 500, 1>>
  /\ AppliedFirst.factor = <<1, 5>>

\* C16: the output ImageToProbe matrix applies the pixel-to-mm scaling first
\* and the fitted image-mm-to-probe transform second (ImageToProbe =
\* ImageMmToProbe * ImagePixelToImageMm), never the reverse.
C16_ScalingFirst ==
  Succeeded =>
    /\ Len(imageToProbe.matrix) = 2
    /\ AppliedFirst.transform = "Scale"
    /\ AppliedSecond.transform = "vtkLandmarkTransform"

\* a successful run whose scaling is not the identity, so that the order of
\* the two transforms matters
C16_Witness ==
  /\ Succeeded
  /\ AppliedFirst.transform = "Scale"
  /\ AppliedFirst.factor # Whole(1)

C18_Idempotent ==
  Computed =>
    LET again == ComputeCalibration(CalibrationNode, Session)
    IN /\ again.transform = imageToProbe
       /\ again.message = outputMessage

\* two sets of observers are registered, so the operation's one modification
\* ran ComputeCalibration more than once, and the runs wrote a matrix
C18_Witness ==
  /\ Succeeded
  /\ ilObservers = 2
  /\ pre.written # {}

\* C19: in a session set up with SetupCalibrationNode every change of the
\* marked or the unmarked list (adding, resetting) and every change of depth
\* through SetDepth has run ComputeCalibration on the changed inputs before the
\* call returns.
C19_SynchronousRecompute ==
  [][ (/\ ilObservers > 0
       /\ \/ markedPoints' # markedPoints
          \/ unmarkedPoints' # unmarkedPoints
          \/ depthAttr' # depthAttr) =>
        LET run == ComputeCalibration(CalibrationNode,
                     [marked |-> markedPoints', unmarked |-> unmarkedPoints',
                      depth |-> depthAttr', message |-> outputMessage,
                      image |-> usImage', output |-> imageToProbe])
        IN /\ pre'.computed
           /\ outputMessage' = run.message
           /\ imageToProbe' = run.transform ]_vars

\* a run on a depth that SetDepth made unreadable: it raised float()'s
\* ValueError
C19_Witness ==
  /\ Computed
  /\ EnoughPoints
  /\ depthAttr = Attribute("abc")
  /\ exception = "ValueError"

\* C20: the output transform is replaced as a whole: every matrix the output
\* node was given while the last operation ran is the complete composition
\* (scaling, then landmark fit) the node holds when the operation returns, so
\* the node holds the complete result of before or the complete new one.
C20_ReplacedWhole ==
  \A matrix \in pre.written :
    /\ matrix = imageToProbe.matrix
    /\ Len(matrix) = 2
    /\ matrix[1].transform = "Scale"
    /\ matrix[2].transform = "vtkLandmarkTransform"

\* a successful run on depth -5: the one matrix it gave the node is the one the
\* node holds
C20_Witness ==
  /\ Succeeded
  /\ pre.written = {imageToProbe.matrix}
  /\ depthAttr = Attribute("-5")
  /\ AppliedFirst.factor = <<-1, 100>>

(***************************************************************************)
(* Claims about the landmarks and the failures, under SpecImageless        *)
(***************************************************************************)
Dot(a, b) == a[1] * b[1] + a[2] * b[2] + a[3] * b[3]

\* the corner edge of a side
CornerEdge(pointsList) ==
  Subtract(GetNthFiducialPosition(pointsList, 1), GetNthFiducialPosition(pointsList, 0))

\* C21: for corner points that do not coincide and a depth d > 0, each far
\* landmark of the fitted target lies at distance exactly d from the near
\* landmark of the same side, and each side's depth direction (far - near) is
\* orthogonal to the across vector (unmarked near - marked near) and to that
\* side's corner edge.
C21_FarLandmarks ==
  (Succeeded /\ ~Coincident(markedPoints) /\ ~Coincident(unmarkedPoints)
     /\ Float(depthAttr).value > 0) =>
    LET landmarks == AppliedSecond.target
        d == Float(depthAttr).value
        across == Subtract(landmarks[1], landmarks[2])
        AtDepth(near, far, pointsList) ==
          /\ Dot(Subtract(far, near), Subtract(far, near)) = d * d
          /\ Dot(Subtract(far, near), across) = 0
          /\ Dot(Subtract(far, near), CornerEdge(pointsList)) = 0
    IN /\ AtDepth(landmarks[1], landmarks[3], unmarkedPoints)
       /\ AtDepth(landmarks[2], landmarks[4], markedPoints)

\* a depth of 100 was fitted on two distinct corners per side, the far
\* landmarks off the near ones
C21_Witness ==
  /\ Succeeded
  /\ ~Coincident(markedPoints)
  /\ ~Coincident(unmarkedPoints)
  /\ depthAttr = Attribute("100")
  /\ AppliedSecond.target[3] # AppliedSecond.target[1]
  /\ AppliedSecond.target[4] # AppliedSecond.target[2]

\* the landmark pairs a written matrix was fitted from
FittedPairs(matrix) ==
  { Len(matrix[i].source) : i \in { j \in 1..Len(matrix) :
                                      matrix[j].transform = "vtkLandmarkTransform" } }

\* C22: a recomputation on fewer than 2 points on a side reports the
\* insufficient-points failure and gives the output node no matrix; every
\* matrix an operation's recomputations write was fitted from at least 3 (in
\* fact 4) landmark pairs, the lists holding 2 points per side.
C22_NoFitFromTooFew ==
  /\ (Computed /\ (TooFewMarked \/ TooFewUnmarked)) =>
       /\ pre.written = {}
       /\ outputMessage \in
            { Attribute("Insufficient number of marked corner points selected."),
              Attribute("Insufficient number of unmarked corner points selected.") }
  /\ \A matrix \in pre.written :
       /\ ~TooFewMarked
       /\ ~TooFewUnmarked
       /\ FittedPairs(matrix) # {}
       /\ \A pairs \in FittedPairs(matrix) : pairs >= 3

\* everything but the second marked point is there, and the recomputation
\* wrote nothing
C22_Witness ==
  /\ Computed
  /\ GetNumberOfFiducials(markedPoints) = 1
  /\ ~TooFewUnmarked
  /\ DepthReads
  /\ usImage.hasData
  /\ ~imageToProbe.isNone
  /\ pre.written = {}
  /\ outputMessage = Attribute("Insufficient number of marked corner points selected.")

(***************************************************************************)
(* Claims about sessions that hold points, under SpecSessions              *)
(***************************************************************************)
\* C23: ResetPoints leaves both correspondence lists empty from any prior
\* state, mismatched lengths included, so that ComputeErrors afterwards
\* returns an empty list; ResetMarkedPoints empties the marked list and leaves
\* the unmarked list and the depth as they are, and ResetUnmarkedPoints
\* empties the unmarked list and leaves the marked list and the depth.
C23_ResetsWhatTheyName ==
  [][ /\ (observers > 0 /\ ResetPoints(FrwNode)) =>
           /\ fromFiducialList'.markups = <<>>
           /\ toFiducialList'.markups = <<>>
           /\ ComputeErrors(FrwNode)' = <<>>
      /\ (ilObservers > 0 /\ ResetMarkedPoints(CalibrationNode)) =>
           /\ markedPoints'.markups = <<>>
           /\ unmarkedPoints' = unmarkedPoints
           /\ depthAttr' = depthAttr
      /\ (ilObservers > 0 /\ ResetUnmarkedPoints(CalibrationNode)) =>
           /\ unmarkedPoints'.markups = <<>>
           /\ markedPoints' = markedPoints
           /\ depthAttr' = depthAttr ]_vars

\* ResetPoints has emptied lists of different lengths
C23_Witness ==
  /\ called.name = "ResetPoints"
  /\ called.node = FrwNode
  /\ Len(pre.from) # Len(pre.to)
  /\ Len(pre.to) > 0
  /\ fromFiducialList.markups = <<>>
  /\ toFiducialList.markups = <<>>

\* C30: SetupCalibrationNode called again on a session that already has its
\* lists leaves both lists, and the points they hold, as they are, in the
\* pointer-based and in the imageless module: it creates a list for a role
\* only when the session has none.
C30_SetupKeepsPoints ==
  [][ /\ (observers > 0 /\ PB_SetupCalibrationNode(FrwNode)) =>
           /\ fromFiducialList' = fromFiducialList
           /\ toFiducialList' = toFiducialList
      /\ (ilObservers > 0 /\ IL_SetupCalibrationNode(CalibrationNode)) =>
           /\ markedPoints' = markedPoints
           /\ unmarkedPoints' = unmarkedPoints ]_vars

\* SetupCalibrationNode was called a second time on three image points and
\* two probe points
C30_Witness ==
  /\ called.name = "SetupCalibrationNode"
  /\ called.node = FrwNode
  /\ observers = 2
  /\ NumFrom = 3
  /\ NumTo = 2
  /\ Lists = pre

(***************************************************************************)
(* Claims about mismatched lists and repeated observers, under SpecPointer *)
(***************************************************************************)
\* the last operation was an UndoPoints or a DeleteNthPoint on lists of
\* different lengths
RemovedFromMismatched ==
  /\ OnSession
  /\ called.name \in {"UndoPoints", "DeleteNthPoint"}
  /\ Len(pre.from) # Len(pre.to)

\* C24 as stated: once the image and probe lists differ in length, no
\* UndoPoints and no DeleteNthPoint makes them equal in length again.
C24_NeverEqualAgain ==
  RemovedFromMismatched => NumFrom # NumTo

\* C24, amended: UndoPoints and DeleteNthPoint never add a point, but each
\* removes from each list on its own, so they do make mismatched lengths equal
\* again, exactly when the image list is one longer and only it has an entry
\* to remove: UndoPoints when the probe list is empty, DeleteNthPoint( n ) when
\* n is the image list's last index. The probe list is then left as it was.
C24_EqualAgainByRemoval ==
  RemovedFromMismatched =>
    /\ NumFrom <= Len(pre.from)
    /\ NumTo <= Len(pre.to)
    /\ NumFrom = NumTo <=>
         /\ Len(pre.from) = Len(pre.to) + 1
         /\ IF called.name = "UndoPoints"
            THEN Len(pre.to) = 0
            ELSE called.n = Len(pre.to)
    /\ NumFrom = NumTo => toFiducialList.markups = pre.to

\* DeleteNthPoint( 1 ) on two image points and one probe point has left one of
\* each
C24_Witness ==
  /\ RemovedFromMismatched
  /\ called.name = "DeleteNthPoint"
  /\ called.n = 1
  /\ Len(pre.from) = 2
  /\ Len(pre.to) = 1
  /\ NumFrom = 1
  /\ NumTo = 1

\* C25: SelectMarkedPoint and SelectUnmarkedPoint on a side that already holds
\* 2 or more points log the warning and (the fiducial registration logic
\* being there) still append the point, and since ComputeCalibration reads only
\* the points at indices 0 and 1 of each side, the recomputation the append
\* triggers leaves the status and the output transform as they were.
C25_FurtherPointsUnused ==
  [][ /\ \A p \in MarkedCorners :
           (/\ ilObservers > 0
            /\ GetNumberOfFiducials(markedPoints) >= 2
            /\ SelectMarkedPoint(CalibrationNode, FrwLogic, p)) =>
             /\ log' = <<AlreadySelected>>
             /\ GetNumberOfFiducials(markedPoints') = GetNumberOfFiducials(markedPoints) + 1
             /\ GetNthFiducialPosition(markedPoints',
                                       GetNumberOfFiducials(markedPoints)) = p
             /\ SubSeq(markedPoints'.markups, 1, 2) = SubSeq(markedPoints.markups, 1, 2)
             /\ outputMessage' = outputMessage
             /\ imageToProbe' = imageToProbe
      /\ \A p \in UnmarkedCorners :
           (/\ ilObservers > 0
            /\ GetNumberOfFiducials(unmarkedPoints) >= 2
            /\ SelectUnmarkedPoint(CalibrationNode, FrwLogic, p)) =>
             /\ log' = <<AlreadySelected>>
             /\ GetNumberOfFiducials(unmarkedPoints') = GetNumberOfFiducials(unmarkedPoints) + 1
             /\ GetNthFiducialPosition(unmarkedPoints',
                                       GetNumberOfFiducials(unmarkedPoints)) = p
             /\ SubSeq(unmarkedPoints'.markups, 1, 2) = SubSeq(unmarkedPoints.markups, 1, 2)
             /\ outputMessage' = outputMessage
             /\ imageToProbe' = imageToProbe ]_vars

\* a third marked point, away from the second, was selected with the warning
\* and the transform is still the one fitted to the first two
C25_Witness ==
  /\ ilObservers > 0
  /\ GetNumberOfFiducials(markedPoints) = 3
  /\ GetNthFiducialPosition(markedPoints, 2) # GetNthFiducialPosition(markedPoints, 1)
  /\ ~Coincident(markedPoints)
  /\ log = <<AlreadySelected>>
  /\ pre.computed
  /\ outputMessage = Attribute("Success!")
  /\ AppliedSecond.target[2] = NearPoint(markedPoints)
  /\ AppliedSecond.target[4] = FarPoint(markedPoints)

\* C27: placing one image point on lists of equal length appends exactly one
\* probe point, however many observers the calls of SetupCalibrationNode have
\* registered (the fiducial registration logic being there for at least one
\* of them): the first observer that finds the logic adds the paired point,
\* every further one finds the lists equal in length, adds nothing and logs
\* the unsynchronized warning; at no moment is more than one point added.
C27_OnePointPerPlacement ==
  (called.name = "PlaceImagePoint" /\ OnSession /\ Len(pre.from) = Len(pre.to)) =>
    /\ NumFrom = Len(pre.from) + 1
    /\ NumTo <= Len(pre.to) + 1
    /\ SubSeq(toFiducialList.markups, 1, Len(pre.to)) = pre.to
    /\ called.withLogic > 0 =>
         /\ NumTo = Len(pre.to) + 1
         /\ Len(log) = called.withLogic - 1

\* two observers, both with the logic, have run on one placement: one probe
\* point, one warning
C27_Witness ==
  /\ called.name = "PlaceImagePoint"
  /\ OnSession
  /\ pc = "idle"
  /\ observers = 2
  /\ called.withLogic = 2
  /\ Len(pre.from) = Len(pre.to)
  /\ Len(pre.to) = 1
  /\ NumTo = 2
  /\ NumFrom = 2
  /\ Len(log) = 1

(***************************************************************************)
(* Claims about the status and the recomputation, under SpecImageless      *)
(***************************************************************************)
\* C26: in every state an operation returns in, the status is "Success!" only
\* if the marked and the unmarked list each hold at least 2 points, a depth is
\* stored, an image with data is selected and an output transform is set; in
\* particular the status is not "Success!" once either list has been reset.
\* (Violated: a recomputation that ends with an exception leaves the
\* "Success!" of an earlier run, whatever the image has become.)
C26_SuccessOnlyWithInputs ==
  outputMessage = Attribute("Success!") =>
    /\ ~markedPoints.isNone
    /\ ~unmarkedPoints.isNone
    /\ GetNumberOfFiducials(markedPoints) >= 2
    /\ GetNumberOfFiducials(unmarkedPoints) >= 2
    /\ depthAttr.isSet
    /\ ~usImage.isNone
    /\ usImage.hasData
    /\ ~imageToProbe.isNone


\* C28: the recomputation an operation triggers terminates: the
\* ModifiedEvents that the runs' status writes raise nest at most one level
\* below the operation's own event (a nested run writes the value already
\* there, which notifies nobody), and the state the operation returns in is
\* stable: one more run would write the status that is there.
C28_CascadeTerminates ==
  /\ pre.nesting <= MaxNesting
  /\ pre.nesting <= 2
  /\ pre.computed =>
       LET run == ComputeCalibration(CalibrationNode, Session)
       IN ~(run.set /\ SetAttribute(outputMessage, run.message))

\* a status write of a run notified the two observers of the calibration
\* node, and their runs ended the cascade
C28_Witness ==
  /\ Computed
  /\ ilObservers = 2
  /\ pre.nesting = 2
  /\ outputMessage = Attribute("No ultrasound image is selected.")


\* the first input that is missing, in the order marked points, unmarked
\* points, depth, image, output transform
FirstMissing ==
  IF TooFewMarked THEN "Insufficient number of marked corner points selected."
  ELSE IF TooFewUnmarked THEN "Insufficient number of unmarked corner points selected."
  ELSE IF ~depthAttr.isSet THEN "Depth improperly specified."
  ELSE IF usImage.isNone \/ ~usImage.hasData THEN "No ultrasound image is selected."
  ELSE IF imageToProbe.isNone THEN "No output ImageToProbe transform specified."
  ELSE "Success!"

\* C29: a recomputation that returns reports only the first failing
\* precondition, in the order too few marked points, too few unmarked points,
\* missing depth, missing image, missing output transform: with both sides
\* short the status names the marked side, and the missing output transform
\* is reported only when every other input is there.
C29_FirstFailureReported ==
  (Computed /\ exception = "") =>
    /\ outputMessage = Attribute(FirstMissing)
    /\ outputMessage = Attribute("No output ImageToProbe transform specified.") =>
         /\ EnoughPoints
         /\ depthAttr.isSet
         /\ usImage.hasData
         /\ imageToProbe.isNone

\* only the output transform is missing, and that is what the status says
C29_Witness ==
  /\ Computed
  /\ exception = ""
  /\ EnoughPoints
  /\ DepthReads
  /\ usImage.hasData
  /\ imageToProbe.isNone
  /\ outputMessage = Attribute("No output ImageToProbe transform specified.")

====
